---- MODULE Spec2Model ----
(***************************************************************************)
(* GameVault REST backend (src/app.py): users, token blacklist and games   *)
(* with embedded reviews, as a state machine whose actions are the         *)
(* request handlers.  Under Spec every handler runs to completion before   *)
(* the next request starts.                                                *)
(***************************************************************************)
EXTENDS Integers, Sequences, FiniteSets, Bags, TLC

VARIABLES
    users,      \* db.users: sequence of user documents in storage order
    games,      \* db.games: sequence of game documents in storage order
    blacklist,  \* db.blacklist: set of revoked token strings
    now,        \* wall clock, minutes
    nextId,     \* next fresh ObjectId
    since,      \* user _id -> time the record was inserted (history)
    deleted,    \* ids of the games delete_game has answered 204 for, and of the
                \* reviews delete_review has answered 200 for between other
                \* requests (history)
    inflight,   \* bag of the requests that are past their guard, before their
                \* storage operation
    resp,       \* the last response sent
    served      \* the time it was sent (history)

vars == <<users, games, blacklist, now, nextId, since, deleted, inflight, resp, served>>

-----------------------------------------------------------------------------
(* Bounds of the model *)
MaxId == 6          \* ObjectIds 1..MaxId are handed out, then inserts stop
MaxTicks == 2        \* the clock stops after so many steps
MaxBlacklist == 1   \* logout is offered while the blacklist is smaller
MaxGames == 2       \* add_new_game is offered while the collection is smaller
MaxInflight == 2    \* requests between their guard and their storage operation

(* Program constants *)
TokenLifetime == 30     \* timedelta(minutes=30)
MinRating == 1
MaxRating == 10

-----------------------------------------------------------------------------
(* JSON values of request bodies and stored documents, tagged by Python type *)
JStr(s) == [t |-> "str", s |-> s]
JInt(n) == [t |-> "int", i |-> n]
JFloat(n, d) == [t |-> "float", num |-> n, den |-> d]    \* n/d, d > 0
JNull == [t |-> "null"]
JList(items) == [t |-> "list", items |-> items]
JDict(d) == [t |-> "dict", d |-> d]

\* dict.get(key, default)
Get(data, key, default) == IF key \in DOMAIN data THEN data[key] ELSE default

\* ObjectId.is_valid(id): path ids are naturals, 0 stands for any string
\* that is not a 24-digit hex ObjectId
BadId == 0
ObjectId_is_valid(id) == id # BadId

-----------------------------------------------------------------------------
(* Tokens: the string jwt.encode makes is determined by its claims. *)
NoToken == [kind |-> "none"]        \* header absent or empty
ForgedToken == [kind |-> "forged"]  \* malformed, or signed with another key
Token(user, exp) ==
    [kind |-> "jwt", user_id |-> user._id, username |-> user.username,
     admin |-> user.admin, exp |-> exp]

\* the clock moves in steps of half a token lifetime
TickStep == TokenLifetime \div 2
Times == {k * TickStep : k \in 0..MaxTicks}

\* The tokens login (JSON body) has been able to issue up to now
SignedTokens ==
    UNION { {Token(users[i], t + TokenLifetime) :
                t \in {s \in Times : s <= now /\ since[users[i]._id] <= s}} :
            i \in 1..Len(users) }

Err(msg, code) == [payload |-> NoToken, error |-> msg, code |-> code]

decode_token_from_headerNoBlacklist(token, bl, t) ==
    IF token.kind = "none" THEN Err("Token missing", 401)
    ELSE IF token.kind = "forged" THEN Err("Invalid token", 401)
    ELSE IF token.exp <= t THEN Err("Token expired", 401)
    ELSE [payload |-> token, error |-> "", code |-> 0]

decode_token_from_headerExpiryFirst(token, bl, t) ==
    IF token.kind = "none" THEN Err("Token missing", 401)
    ELSE IF token.kind = "forged" THEN Err("Invalid token", 401)
    ELSE IF token.exp <= t THEN Err("Token expired", 401)
    ELSE IF token \in bl THEN Err("Token has been blacklisted", 401)
    ELSE [payload |-> token, error |-> "", code |-> 0]

decode_token_from_header(token, bl, t) ==
    IF token.kind = "none" THEN Err("Token missing", 401)
    ELSE IF token \in bl THEN Err("Token has been blacklisted", 401)
    ELSE IF token.kind = "forged" THEN Err("Invalid token", 401)
    ELSE IF token.exp <= t THEN Err("Token expired", 401)
    ELSE [payload |-> token, error |-> "", code |-> 0]

\* g.user, or the error response, of the two decorators
Guard(ok, user, status, msg) == [ok |-> ok, user |-> user, status |-> status, msg |-> msg]
NoUser == [user_id |-> 0, username |-> "", admin |-> FALSE]
GUser(p, admin) == [user_id |-> p.user_id, username |-> p.username, admin |-> admin]

token_required(token, bl, t) ==
    LET d == decode_token_from_header(token, bl, t) IN
    IF d.error # "" THEN Guard(FALSE, NoUser, d.code, d.error)
    ELSE Guard(TRUE, GUser(d.payload, d.payload.admin), 0, "")

admin_requiredAnyToken(token, bl, t) == token_required(token, bl, t)

admin_required(token, bl, t) ==
    LET d == decode_token_from_header(token, bl, t) IN
    IF d.error # "" THEN Guard(FALSE, NoUser, d.code, d.error)
    ELSE IF ~d.payload.admin THEN Guard(FALSE, NoUser, 403, "Admin privileges required")
    ELSE Guard(TRUE, GUser(d.payload, TRUE), 0, "")

-----------------------------------------------------------------------------
(* Responses: status code, the text of "error" or "message", and the other
   fields of the JSON body *)
Response(status, msg) == [status |-> status, msg |-> msg, token |-> NoToken, id |-> BadId]
\* jsonify({"token": token})
TokenResponse(token) == [status |-> 200, msg |-> "", token |-> token, id |-> BadId]
\* jsonify({"message": ..., "game_id": str(inserted_id)})
IdResponse(status, msg, id) == [status |-> status, msg |-> msg, token |-> NoToken, id |-> id]
\* an exception no handler catches: Flask answers 500
Unhandled == Response(500, "Internal Server Error")

-----------------------------------------------------------------------------
(* Users *)
\* bcrypt.hashpw / bcrypt.checkpw
hashpw(password, salt) == [salt |-> salt, digest |-> <<salt, password>>]
checkpw(password, hashed) == hashpw(password, hashed.salt) = hashed

\* users.find_one({"username": username}): index of the first match, or 0
FindUser(us, username) ==
    IF \E i \in 1..Len(us) : us[i].username = username
    THEN CHOOSE i \in 1..Len(us) :
            /\ us[i].username = username
            /\ \A j \in 1..(i - 1) : us[j].username # username
    ELSE 0

\* "" stands for a key that is missing or falsy
Credentials == [username : {"root", "bob", "carol", ""}, password : {"pw1", "pw2", ""}]

SeedUsers ==
    << [_id |-> 1, username |-> "root", password |-> hashpw("pw1", 1), admin |-> TRUE],
       [_id |-> 2, username |-> "alice", password |-> hashpw("pw1", 2), admin |-> FALSE],
       [_id |-> 3, username |-> "bob", password |-> hashpw("pw2", 3), admin |-> FALSE] >>

NoCredentials == [username |-> "", password |-> ""]

new_userAdmin(username, hashed, id) ==
    [_id |-> id, username |-> username, password |-> hashed, admin |-> TRUE]

new_user(username, hashed, id) ==
    [_id |-> id, username |-> username, password |-> hashed, admin |-> FALSE]

\* POST /register with JSON body data: the response and db.users after it
register_result(data) ==
    IF data.username = "" \/ data.password = ""
    THEN [resp |-> Response(400, "Username and password are required"), users |-> users]
    ELSE IF FindUser(users, data.username) # 0
    THEN [resp |-> Response(409, "Username already exists"), users |-> users]
    ELSE [resp |-> Response(201, "User registered successfully"),
          users |-> Append(users,
                        new_user(data.username, hashpw(data.password, nextId), nextId))]

register(data) ==
    LET o == register_result(data) IN
    /\ o.users # users => nextId <= MaxId
    /\ users' = o.users
    /\ resp' = o.resp
    /\ served' = now
    /\ nextId' = IF o.users # users THEN nextId + 1 ELSE nextId
    /\ since' = IF o.users # users
                THEN [i \in DOMAIN since \cup {nextId} |-> IF i = nextId THEN now ELSE since[i]]
                ELSE since
    /\ UNCHANGED <<games, blacklist, now, deleted, inflight>>

\* line 2 binds the name datetime to the class, line 10 rebinds it to the
\* module: datetime.now(...) of line 118 raises AttributeError,
\* datetime.datetime.utcnow() of line 137 gives the time
Raised(e) == [raised |-> e, value |-> 0]
Value(v) == [raised |-> "", value |-> v]
datetime_now(t) == Raised("AttributeError")
datetime_datetime_utcnow(t) == Value(t)

\* jwt.encode of the claims of user, or the exception of the expiry expression
jwt_encodeAdminClaim(user, clock) ==
    IF clock.raised # "" THEN Unhandled
    ELSE TokenResponse(Token([user EXCEPT !.admin = TRUE], clock.value + TokenLifetime))

jwt_encode(user, clock) ==
    IF clock.raised # "" THEN Unhandled
    ELSE TokenResponse(Token(user, clock.value + TokenLifetime))

\* POST /login with Basic Auth header auth and JSON body data: the response
login_result(auth, data) ==
    IF auth.username # "" /\ auth.password # ""
    THEN LET i == FindUser(users, auth.username) IN
         IF i # 0 /\ checkpw(auth.password, users[i].password)
         THEN jwt_encode(users[i], datetime_now(now))
         ELSE Response(401, "Invalid credentials")
    ELSE IF data.username = "" \/ data.password = ""
    THEN Response(400, "Username and password required")
    ELSE LET i == FindUser(users, data.username) IN
         IF i = 0 \/ ~checkpw(data.password, users[i].password)
         THEN Response(401, "Invalid credentials")
         ELSE jwt_encode(users[i], datetime_datetime_utcnow(now))

login(auth, data) ==
    /\ resp' = login_result(auth, data)
    /\ served' = now
    /\ UNCHANGED <<users, games, blacklist, now, nextId, since, deleted, inflight>>

\* POST /logout with x-access-token token: the response and db.blacklist after it
logout_resultNoInsert(token) ==
    LET g == token_required(token, blacklist, now) IN
    IF ~g.ok THEN [resp |-> Response(g.status, g.msg), blacklist |-> blacklist]
    ELSE IF token \in blacklist
    THEN [resp |-> Response(400, "Token already blacklisted"), blacklist |-> blacklist]
    ELSE [resp |-> Response(200, "Successfully logged out"), blacklist |-> blacklist]

logout_result(token) ==
    LET g == token_required(token, blacklist, now) IN
    IF ~g.ok THEN [resp |-> Response(g.status, g.msg), blacklist |-> blacklist]
    ELSE IF token \in blacklist
    THEN [resp |-> Response(400, "Token already blacklisted"), blacklist |-> blacklist]
    ELSE [resp |-> Response(200, "Successfully logged out"),
          blacklist |-> blacklist \cup {token}]

logout(token) ==
    LET o == logout_result(token) IN
    /\ o.blacklist # blacklist => Cardinality(blacklist) < MaxBlacklist
    /\ blacklist' = o.blacklist
    /\ resp' = o.resp
    /\ served' = now
    /\ UNCHANGED <<users, games, now, nextId, since, deleted, inflight>>

-----------------------------------------------------------------------------
(* Request bodies *)
NotJson == [is_json |-> FALSE, data |-> << >>]      \* request.is_json is False
Json(data) == [is_json |-> TRUE, data |-> data]     \* request.get_json()

With(d, k, v) == [x \in DOMAIN d \cup {k} |-> IF x = k THEN v ELSE d[x]]
Without(d, k) == [x \in DOMAIN d \ {k} |-> d[x]]
Empty == [x \in {} |-> JNull]                       \* {}

\* Python truth value of a JSON value
Truthy(v) ==
    CASE v.t = "null" -> FALSE
      [] v.t = "str" -> v.s # ""
      [] v.t = "int" -> v.i # 0
      [] v.t = "float" -> v.num # 0
      [] v.t = "list" -> Len(v.items) > 0
      [] v.t = "dict" -> DOMAIN v.d # {}

\* isinstance(v, (int, float))
IsNumber(v) == v.t \in {"int", "float"}

-----------------------------------------------------------------------------
(* Games *)
required_fields ==
    <<"title", "platforms", "release_year", "developer", "publisher", "esrb",
      "genres", "modes">>

Range(f) == {f[i] : i \in DOMAIN f}

\* games.find_one({"_id": ObjectId(id)}): index of the match, or 0
FindGame(gms, id) ==
    IF \E i \in 1..Len(gms) : gms[i]._id = id
    THEN CHOOSE i \in 1..Len(gms) :
            /\ gms[i]._id = id
            /\ \A j \in 1..(i - 1) : gms[j]._id # id
    ELSE 0

\* games.find_one({"title": title})
FindTitle(gms, title) == \E i \in 1..Len(gms) : gms[i].title = title

\* add_new_game's test of developer_hq (lines 256-263)
hq_ok_add_new_game(hq) ==
    /\ hq.t = "dict"
    /\ Get(hq.d, "type", JNull) = JStr("Point")
    /\ Get(hq.d, "coordinates", JNull).t = "list"
    /\ Len(hq.d["coordinates"].items) = 2
    /\ IsNumber(hq.d["coordinates"].items[1])
    /\ IsNumber(hq.d["coordinates"].items[2])

\* edit_game's test of developer_hq (lines 302-307)
hq_ok_edit_game(hq) ==
    /\ hq.t = "dict"
    /\ Get(hq.d, "type", JNull) = JStr("Point")
    /\ Get(hq.d, "coordinates", JNull).t = "list"
    /\ Len(hq.d["coordinates"].items) = 2

new_gamePublisherFromDeveloper(data) ==
    [title |-> data["title"],
     platforms |-> Get(data, "platforms", JList(<< >>)),
     release_year |-> Get(data, "release_year", JNull),
     developer |-> Get(data, "developer", JNull),
     publisher |-> Get(data, "developer", JNull),
     rating |-> Get(data, "rating", JNull),
     esrb |-> Get(data, "esrb", JNull),
     genres |-> Get(data, "genres", JList(<< >>)),
     modes |-> Get(data, "modes", JList(<< >>)),
     reviews |-> << >>,
     awards |-> << >>]

new_game(data) ==
    [title |-> data["title"],
     platforms |-> Get(data, "platforms", JList(<< >>)),
     release_year |-> Get(data, "release_year", JNull),
     developer |-> Get(data, "developer", JNull),
     publisher |-> Get(data, "publisher", JNull),
     rating |-> Get(data, "rating", JNull),
     esrb |-> Get(data, "esrb", JNull),
     genres |-> Get(data, "genres", JList(<< >>)),
     modes |-> Get(data, "modes", JList(<< >>)),
     reviews |-> << >>,
     awards |-> << >>]

\* the body of add_new_game: the response, and the document to insert if any
NoInsert(rs) == [resp |-> rs, insert |-> FALSE, doc |-> Empty]

add_new_game_bodyInsertFirst(gms, body, id) ==
    IF ~body.is_json
    THEN NoInsert(Response(400, "Request must be JSON"))
    ELSE IF ~(Range(required_fields) \subseteq DOMAIN body.data)
    THEN NoInsert(Response(400, "Missing required fields"))
    ELSE IF FindTitle(gms, body.data["title"])
    THEN NoInsert(Response(409, "A game with that title already exists"))
    ELSE LET hq == Get(body.data, "developer_hq", JNull)
             doc == With(new_game(body.data), "_id", id)
         IN  IF ~Truthy(hq) \/ hq_ok_add_new_game(hq)
             THEN [resp |-> IdResponse(201, "Game added successfully", id),
                   insert |-> TRUE, doc |-> doc]
             ELSE [resp |-> Response(400, "Invalid GeoJSON format for developer_hq"),
                   insert |-> TRUE, doc |-> doc]

add_new_game_body(gms, body, id) ==
    IF ~body.is_json
    THEN NoInsert(Response(400, "Request must be JSON"))
    ELSE IF ~(Range(required_fields) \subseteq DOMAIN body.data)
    THEN NoInsert(Response(400, "Missing required fields"))
    ELSE IF FindTitle(gms, body.data["title"])
    THEN NoInsert(Response(409, "A game with that title already exists"))
    ELSE LET hq == Get(body.data, "developer_hq", JNull)
             doc == new_game(body.data)
             ok == IdResponse(201, "Game added successfully", id)
         IN  IF ~Truthy(hq)
             THEN [resp |-> ok, insert |-> TRUE, doc |-> With(doc, "_id", id)]
             ELSE IF hq_ok_add_new_game(hq)
             THEN [resp |-> ok, insert |-> TRUE,
                   doc |-> With(With(doc, "developer_hq", hq), "_id", id)]
             ELSE NoInsert(Response(400,
                                    "Invalid GeoJSON format for developer_hq"))

\* POST /games: the response and db.games after it
add_new_game_result(token, body) ==
    LET g == admin_required(token, blacklist, now)
        b == add_new_game_body(games, body, nextId)
    IN  IF ~g.ok THEN [resp |-> Response(g.status, g.msg), games |-> games]
        ELSE IF ~b.insert THEN [resp |-> b.resp, games |-> games]
        ELSE [resp |-> b.resp, games |-> Append(games, b.doc)]

add_new_game(token, body) ==
    LET o == add_new_game_result(token, body) IN
    /\ o.games # games => (nextId <= MaxId /\ Len(games) < MaxGames)
    /\ games' = o.games
    /\ resp' = o.resp
    /\ served' = now
    /\ nextId' = IF o.games # games THEN nextId + 1 ELSE nextId
    /\ UNCHANGED <<users, blacklist, now, since, deleted, inflight>>

\* {"$set": fields} on one document
Set(doc, fields) ==
    [k \in DOMAIN doc \cup DOMAIN fields |-> IF k \in DOMAIN fields THEN fields[k] ELSE doc[k]]

\* games.update_one({"_id": ObjectId(id)}, {"$set": fields})
UpdateResult(gms, matched, modified) ==
    [games |-> gms, matched_count |-> matched, modified_count |-> modified]

update_one_set(gms, id, fields) ==
    LET i == FindGame(gms, id) IN
    IF i = 0 THEN UpdateResult(gms, 0, 0)
    ELSE LET doc == Set(gms[i], fields) IN
         UpdateResult([gms EXCEPT ![i] = doc], 1, IF doc = gms[i] THEN 0 ELSE 1)

\* the fields edit_game takes from the payload (lines 294-298)
whitelisted(data) ==
    [k \in DOMAIN data \cap Range(required_fields) |-> data[k]]

EditResult(rs, gms) == [resp |-> rs, games |-> gms]

edit_game_body(gms, id, body) ==
    IF ~body.is_json
    THEN EditResult(Response(400, "Request must be JSON"), gms)
    ELSE IF ~ObjectId_is_valid(id)
    THEN EditResult(Response(400, "Invalid Game ID format"), gms)
    ELSE IF "developer_hq" \in DOMAIN body.data /\ ~hq_ok_edit_game(body.data["developer_hq"])
    THEN EditResult(Response(400, "Invalid GeoJSON format"), gms)
    ELSE LET update_fields ==
                 IF "developer_hq" \in DOMAIN body.data
                 THEN With(whitelisted(body.data), "developer_hq", body.data["developer_hq"])
                 ELSE whitelisted(body.data)
             result == update_one_set(gms, id, update_fields)
         IN  IF DOMAIN update_fields = {}
             THEN EditResult(Response(400, "No valid update fields provided"), gms)
             ELSE IF result.modified_count = 1
             THEN EditResult(Response(200, "Game updated successfully"),
                             result.games)
             ELSE EditResult(Response(500, "Game update failed"), result.games)

\* PUT /games/<id>: the response and db.games after it
edit_game_result(token, id, body) ==
    LET g == admin_required(token, blacklist, now) IN
    IF ~g.ok THEN EditResult(Response(g.status, g.msg), games)
    ELSE edit_game_body(games, id, body)

edit_game(token, id, body) ==
    LET o == edit_game_result(token, id, body) IN
    /\ games' = o.games
    /\ resp' = o.resp
    /\ served' = now
    /\ UNCHANGED <<users, blacklist, now, nextId, since, deleted, inflight>>

\* games.delete_one({"_id": ObjectId(id)})
DeleteResult(gms, count) == [games |-> gms, deleted_count |-> count]

delete_one(gms, id) ==
    LET i == FindGame(gms, id) IN
    IF i = 0 THEN DeleteResult(gms, 0)
    ELSE DeleteResult(SubSeq(gms, 1, i - 1) \o SubSeq(gms, i + 1, Len(gms)), 1)

delete_game_bodyIgnoreCount(gms, id) ==
    IF ~ObjectId_is_valid(id)
    THEN EditResult(Response(400, "Invalid Game ID format"), gms)
    ELSE EditResult(Response(204, ""), delete_one(gms, id).games)

delete_game_body(gms, id) ==
    IF ~ObjectId_is_valid(id)
    THEN EditResult(Response(400, "Invalid Game ID format"), gms)
    ELSE LET result == delete_one(gms, id) IN
         IF result.deleted_count = 1
         THEN EditResult(Response(204, ""), result.games)
         ELSE EditResult(Response(404, "Invalid Game ID"), result.games)

\* DELETE /games/<id>: the response and db.games after it
delete_game_result(token, id) ==
    LET g == admin_required(token, blacklist, now) IN
    IF ~g.ok THEN EditResult(Response(g.status, g.msg), games)
    ELSE delete_game_body(games, id)

\* served without another request in between
delete_game(token, id) ==
    LET o == delete_game_result(token, id) IN
    /\ games' = o.games
    /\ resp' = o.resp
    /\ served' = now
    /\ deleted' = IF o.resp.status = 204 THEN deleted \cup {id} ELSE deleted
    /\ UNCHANGED <<users, blacklist, now, nextId, since, inflight>>

\* DELETE /games/<id> in two steps, other requests in between: the decorator
\* (blacklist.find_one, jwt.decode), then the body (games.delete_one)
DeleteGameRequest(id) == [op |-> "delete_game", id |-> id]

delete_game_begin(token, id) ==
    LET g == admin_required(token, blacklist, now) IN
    /\ UNCHANGED <<users, games, blacklist, now, nextId, since, deleted>>
    /\ IF ~g.ok
       THEN resp' = Response(g.status, g.msg) /\ served' = now /\ UNCHANGED inflight
       ELSE /\ BagCardinality(inflight) < MaxInflight
            /\ inflight' = inflight (+) SetToBag({DeleteGameRequest(id)})
            /\ UNCHANGED <<resp, served>>

delete_game_finish(id) ==
    LET b == delete_game_body(games, id) IN
    /\ BagIn(DeleteGameRequest(id), inflight)
    /\ UNCHANGED <<users, blacklist, now, nextId, since>>
    /\ inflight' = inflight (-) SetToBag({DeleteGameRequest(id)})
    /\ resp' = b.resp
    /\ served' = now
    /\ games' = b.games
    /\ deleted' = IF b.resp.status = 204 THEN deleted \cup {id} ELSE deleted

-----------------------------------------------------------------------------
(* Reviews *)
\* the characters of the strings a rating or a page argument is sent as
Chars(s) ==
    CASE s = "10" -> <<"1", "0">>
      [] s = "abc" -> <<"a", "b", "c">>
      [] s = "0" -> <<"0">>
      [] s = "1" -> <<"1">>
      [] s = "2" -> <<"2">>
      [] s = "3" -> <<"3">>
      [] s = "4" -> <<"4">>
      [] s = "-1" -> <<"-", "1">>
      [] s = "1.5" -> <<"1", ".", "5">>
      [] OTHER -> <<"?">>

DigitValue(c) ==
    CASE c = "0" -> 0 [] c = "1" -> 1 [] c = "2" -> 2 [] c = "3" -> 3 [] c = "4" -> 4
      [] c = "5" -> 5 [] c = "6" -> 6 [] c = "7" -> 7 [] c = "8" -> 8 [] c = "9" -> 9
      [] OTHER -> -1

RECURSIVE Decimal(_)
Decimal(cs) ==
    IF Len(cs) = 0 THEN 0
    ELSE 10 * Decimal(SubSeq(cs, 1, Len(cs) - 1)) + DigitValue(cs[Len(cs)])

\* Python int(v): an int is itself, a float is truncated, a string of digits
\* with or without a sign is parsed, any other string raises ValueError,
\* None/list/dict raise TypeError
Digits(cs) == Len(cs) > 0 /\ \A k \in 1..Len(cs) : DigitValue(cs[k]) >= 0

int(v) ==
    CASE v.t = "int" -> Value(v.i)
      [] v.t = "float" ->
            Value(IF v.num >= 0 THEN v.num \div v.den ELSE -((-v.num) \div v.den))
      [] v.t = "str" ->
            LET cs == Chars(v.s) IN
            IF Digits(cs) THEN Value(Decimal(cs))
            ELSE IF Len(cs) > 1 /\ cs[1] = "-" /\ Digits(Tail(cs))
            THEN Value(-Decimal(Tail(cs)))
            ELSE Raised("ValueError")
      [] OTHER -> Raised("TypeError")

\* lines 413-418 and 512-518: the rating to store, or the error response
Rating(ok, rating, rs) == [ok |-> ok, rating |-> rating, resp |-> rs]

parse_rating(v) ==
    LET r == int(v) IN
    IF r.raised = "ValueError" THEN Rating(FALSE, 0, Response(400, "Rating must be a number"))
    ELSE IF r.raised # "" THEN Rating(FALSE, 0, Unhandled)
    ELSE IF r.value < MinRating \/ r.value > MaxRating
    THEN Rating(FALSE, 0, Response(400, "Rating must be between 1 and 10"))
    ELSE Rating(TRUE, r.value, Response(0, ""))

\* next((r for r in game.get("reviews", []) if str(r["_id"]) == r_id), None)
FindReview(reviews, r_id) ==
    IF \E i \in 1..Len(reviews) : reviews[i]._id = r_id
    THEN CHOOSE i \in 1..Len(reviews) :
            /\ reviews[i]._id = r_id
            /\ \A j \in 1..(i - 1) : reviews[j]._id # r_id
    ELSE 0

\* games.update_one({"_id": ObjectId(g_id)}, {"$push": {"reviews": review}})
update_one_pushOverwrite(gms, g_id, review) ==
    LET i == FindGame(gms, g_id) IN
    IF i = 0 THEN UpdateResult(gms, 0, 0)
    ELSE UpdateResult([gms EXCEPT ![i] = With(@, "reviews", <<review>>)], 1, 1)

update_one_push(gms, g_id, review) ==
    LET i == FindGame(gms, g_id) IN
    IF i = 0 THEN UpdateResult(gms, 0, 0)
    ELSE UpdateResult([gms EXCEPT ![i] = With(@, "reviews", Append(@.reviews, review))], 1, 1)

\* games.update_one({"_id": ObjectId(g_id), "reviews._id": ObjectId(r_id)},
\*                  {"$set": {"reviews.$.<k>": fields[k]}})
update_one_set_reviewEveryElement(gms, g_id, r_id, fields) ==
    LET i == FindGame(gms, g_id) IN
    IF i = 0 \/ FindReview(gms[i].reviews, r_id) = 0 THEN UpdateResult(gms, 0, 0)
    ELSE LET reviews == [j \in 1..Len(gms[i].reviews) |-> Set(gms[i].reviews[j], fields)]
         IN  UpdateResult([gms EXCEPT ![i] = With(@, "reviews", reviews)],
                          1, IF reviews = gms[i].reviews THEN 0 ELSE 1)

update_one_set_review(gms, g_id, r_id, fields) ==
    LET i == FindGame(gms, g_id) IN
    IF i = 0 \/ FindReview(gms[i].reviews, r_id) = 0 THEN UpdateResult(gms, 0, 0)
    ELSE LET j == FindReview(gms[i].reviews, r_id)
             review == Set(gms[i].reviews[j], fields)
         IN  UpdateResult(
                [gms EXCEPT ![i] = With(@, "reviews", [@.reviews EXCEPT ![j] = review])],
                1, IF review = gms[i].reviews[j] THEN 0 ELSE 1)

\* games.update_one({"_id": ObjectId(g_id)}, {"$pull": {"reviews": {"_id": ObjectId(r_id)}}})
update_one_pull(gms, g_id, r_id) ==
    LET i == FindGame(gms, g_id) IN
    IF i = 0 THEN UpdateResult(gms, 0, 0)
    ELSE LET Keep(r) == r._id # r_id
             left == SelectSeq(gms[i].reviews, Keep)
         IN  UpdateResult([gms EXCEPT ![i] = With(@, "reviews", left)], 1,
                          IF left = gms[i].reviews THEN 0 ELSE 1)

new_review(user, data, rating, id) ==
    [_id |-> id, user_id |-> user.user_id, username |-> user.username,
     comment |-> data["comment"], rating |-> rating]

\* add_new_review up to the insert: the response, and the review to push if any
NoPush(rs) == [resp |-> rs, push |-> FALSE, rating |-> 0]

add_new_review_body(gms, user, g_id, body) ==
    IF ~ObjectId_is_valid(g_id)
    THEN NoPush(Response(400, "Invalid Game ID format"))
    ELSE IF ~body.is_json
    THEN NoPush(Response(400, "Request must be JSON"))
    ELSE IF "comment" \notin DOMAIN body.data \/ "rating" \notin DOMAIN body.data
    THEN NoPush(Response(400, "Comment and rating are required"))
    ELSE LET r == parse_rating(body.data["rating"]) IN
         IF ~r.ok THEN NoPush(r.resp)
         ELSE IF FindGame(gms, g_id) = 0
         THEN NoPush(Response(404, "Game not found"))
         ELSE [resp |-> Response(201, "Review added successfully"), push |-> TRUE,
               rating |-> r.rating]

\* POST /games/<g_id>/reviews: the response and db.games after it
add_new_review_result(token, g_id, body) ==
    LET g == token_required(token, blacklist, now)
        b == add_new_review_body(games, g.user, g_id, body)
    IN  IF ~g.ok THEN [resp |-> Response(g.status, g.msg), games |-> games]
        ELSE IF ~b.push THEN [resp |-> b.resp, games |-> games]
        ELSE [resp |-> b.resp,
              games |-> update_one_push(games, g_id,
                            new_review(g.user, body.data, b.rating, nextId)).games]

add_new_review(token, g_id, body) ==
    LET o == add_new_review_result(token, g_id, body) IN
    /\ o.games # games => nextId <= MaxId
    /\ games' = o.games
    /\ resp' = o.resp
    /\ served' = now
    /\ nextId' = IF o.games # games THEN nextId + 1 ELSE nextId
    /\ UNCHANGED <<users, blacklist, now, since, deleted, inflight>>

\* lines 503 and 551: the caller may not touch the review
forbiddenNever(user, review) == FALSE

forbidden(user, review) == ~user.admin /\ review.user_id # user.user_id

\* the existence and ownership checks edit_review and delete_review share
\* (lines 494-504, 541-552): the error response, or status 0 to go on
review_checks(gms, user, g_id, r_id, what) ==
    LET i == FindGame(gms, g_id) IN
    IF i = 0 THEN Response(404, "Game not found")
    ELSE LET j == FindReview(gms[i].reviews, r_id) IN
         IF j = 0 THEN Response(404, "Review not found")
         ELSE IF forbidden(user, gms[i].reviews[j]) THEN Response(403, what)
         ELSE Response(0, "")

\* edit_review up to the update: the response, and the fields to set if any
NoUpdate(rs) == [resp |-> rs, update |-> FALSE, fields |-> Empty]

edit_review_body(gms, user, g_id, r_id, body) ==
    IF ~body.is_json
    THEN NoUpdate(Response(400, "Request must be JSON"))
    ELSE IF ~ObjectId_is_valid(g_id) \/ ~ObjectId_is_valid(r_id)
    THEN NoUpdate(Response(400, "Invalid ID format"))
    ELSE LET c == review_checks(gms, user, g_id, r_id, "Not authorized to edit this review")
             r == IF "rating" \in DOMAIN body.data
                  THEN parse_rating(body.data["rating"])
                  ELSE Rating(TRUE, 0, Response(0, ""))
             f1 == IF "comment" \in DOMAIN body.data
                   THEN [comment |-> body.data["comment"]]
                   ELSE Empty
             update_fields == IF "rating" \in DOMAIN body.data
                              THEN With(f1, "rating", r.rating)
                              ELSE f1
         IN  IF c.status # 0 THEN NoUpdate(c)
             ELSE IF ~r.ok THEN NoUpdate(r.resp)
             ELSE IF DOMAIN update_fields = {}
             THEN NoUpdate(Response(400, "No valid fields provided"))
             ELSE [resp |-> Response(200, "Review updated successfully"), update |-> TRUE,
                   fields |-> update_fields]

\* PUT /games/<g_id>/reviews/<r_id>: the response and db.games after it
edit_review_result(token, g_id, r_id, body) ==
    LET g == token_required(token, blacklist, now)
        b == edit_review_body(games, g.user, g_id, r_id, body)
    IN  IF ~g.ok THEN [resp |-> Response(g.status, g.msg), games |-> games]
        ELSE IF ~b.update THEN [resp |-> b.resp, games |-> games]
        ELSE [resp |-> b.resp,
              games |-> update_one_set_review(games, g_id, r_id, b.fields).games]

edit_review(token, g_id, r_id, body) ==
    LET o == edit_review_result(token, g_id, r_id, body) IN
    /\ games' = o.games
    /\ resp' = o.resp
    /\ served' = now
    /\ UNCHANGED <<users, blacklist, now, nextId, since, deleted, inflight>>

\* delete_review up to the update
delete_review_body(gms, user, g_id, r_id) ==
    IF ~ObjectId_is_valid(g_id) \/ ~ObjectId_is_valid(r_id)
    THEN Response(400, "Invalid ID format")
    ELSE review_checks(gms, user, g_id, r_id, "Not authorized to delete this review")

\* DELETE /games/<g_id>/reviews/<r_id>: the response and db.games after it
delete_review_result(token, g_id, r_id) ==
    LET g == token_required(token, blacklist, now)
        c == delete_review_body(games, g.user, g_id, r_id)
        result == update_one_pull(games, g_id, r_id)
    IN  IF ~g.ok THEN [resp |-> Response(g.status, g.msg), games |-> games]
        ELSE IF c.status # 0 THEN [resp |-> c, games |-> games]
        ELSE IF result.modified_count = 1
        THEN [resp |-> Response(200, "Review deleted successfully"), games |-> result.games]
        ELSE [resp |-> Response(500, "Delete failed"), games |-> result.games]

delete_review(token, g_id, r_id) ==
    LET o == delete_review_result(token, g_id, r_id) IN
    /\ games' = o.games
    /\ resp' = o.resp
    /\ served' = now
    /\ UNCHANGED <<users, blacklist, now, nextId, since, deleted, inflight>>

\* time passes
Tick ==
    /\ now + TickStep <= MaxTicks * TickStep
    /\ now' = now + TickStep
    /\ UNCHANGED <<users, games, blacklist, nextId, since, deleted, inflight, resp, served>>

-----------------------------------------------------------------------------
\* what a client can put in x-access-token
PresentedTokens == {NoToken, ForgedToken} \cup SignedTokens

\* a request uses one authentication path, or mixes a header with a body
LoginInputs ==
    {<<a, NoCredentials>> : a \in Credentials} \cup
    {<<NoCredentials, d>> : d \in Credentials}

Titles == {"Halo", "Doom"}
FullGame(title) ==
    [title |-> JStr(title), platforms |-> JList(<<JStr("PC")>>),
     release_year |-> JInt(2001), developer |-> JStr("Bungie"),
     publisher |-> JStr("Microsoft"), esrb |-> JStr("M"),
     genres |-> JList(<<JStr("FPS")>>), modes |-> JList(<<JStr("Single")>>)]
Point(coords) == JDict([type |-> JStr("Point"), coordinates |-> JList(coords)])
HqGood == Point(<<JInt(-122), JFloat(476, 10)>>)
HqThree == Point(<<JInt(1), JInt(2), JInt(3)>>)

\* the requests the specifications send
AddGameInputs ==
    {Json(FullGame(t)) : t \in Titles} \cup
    {Json(Without(FullGame("Doom"), "developer")), NotJson}

EditGameInputs ==
    {Json([title |-> JStr(t)]) : t \in Titles} \cup
    {Json([developer_hq |-> HqGood]), Json([rating |-> JInt(9)])}

AddReviewInputs ==
    {Json([comment |-> JStr("c1"), rating |-> r]) :
        r \in {JInt(1), JStr("10"), JInt(11), JNull}}

EditReviewInputs ==
    {Json([comment |-> JStr("c2")]), Json([rating |-> JInt(10)]), Json([rating |-> JInt(0)])}

RegisterInputs == [username : {"alice", "carol", "dave", ""}, password : {"pw1", "pw2", ""}]

\* the requests the claims are checked for, in every state reached
RatingInputs ==
    {JInt(0), JInt(1), JInt(10), JInt(11), JStr("10"), JStr("abc"), JFloat(19, 10), JNull}

AllEditGameInputs ==
    EditGameInputs \cup
    {Json([developer |-> JStr("343")]), Json(Empty), Json([developer_hq |-> HqThree]), NotJson}

AllEditReviewInputs ==
    {Json([rating |-> r]) : r \in RatingInputs} \cup
    {Json([comment |-> JStr("c2")]), Json([comment |-> JStr("c2"), rating |-> JInt(10)]),
     Json(Empty), NotJson}

Init ==
    /\ users = SeedUsers
    /\ games = <<>>
    /\ blacklist = {}
    /\ now = 0
    /\ nextId = Len(SeedUsers) + 1
    /\ since = [i \in 1..Len(SeedUsers) |-> 0]
    /\ deleted = {}
    /\ inflight = EmptyBag
    /\ resp = Response(0, "")
    /\ served = 0

-----------------------------------------------------------------------------
(* Spec: the token life cycle.  As time passes, every token a client can
   hold is presented to logout and to handlers behind each decorator, with
   one well-formed request on the first game. *)
FirstGame == Len(SeedUsers) + 1
ProbeGame == Json(FullGame("Halo"))
ProbeReview == Json([comment |-> JStr("c1"), rating |-> JInt(10)])

Next ==
    \/ \E token \in PresentedTokens : logout(token)
    \/ \E token \in PresentedTokens : add_new_game(token, ProbeGame)
    \/ \E token \in PresentedTokens : delete_game(token, FirstGame)
    \/ \E token \in PresentedTokens : add_new_review(token, FirstGame, ProbeReview)
    \/ Tick

Spec == Init /\ [][Next]_vars

(* SpecUsers: registration and login as time passes. *)
NextUsers ==
    \/ \E data \in RegisterInputs : register(data)
    \/ \E in \in LoginInputs : login(in[1], in[2])
    \/ Tick

SpecUsers == Init /\ [][NextUsers]_vars

(* SpecGames: the catalog.  An admin and a plain user send game requests;
   delete_game requests overlap each other and the other requests. *)
FreshToken(i) == Token(SeedUsers[i], TokenLifetime)
Admin == FreshToken(1)
Alice == FreshToken(2)
Bob == FreshToken(3)
ObjectIds == (Len(SeedUsers) + 1)..MaxId

NextGames ==
    \/ \E token \in {Admin, Alice}, body \in AddGameInputs : add_new_game(token, body)
    \/ \E id \in ObjectIds, body \in EditGameInputs : edit_game(Admin, id, body)
    \/ \E id \in ObjectIds : delete_game_begin(Admin, id)
    \/ \E id \in ObjectIds : delete_game_finish(id)

SpecGames == Init /\ [][NextGames]_vars

(* SpecReviews: the reviews of one game.  The admin and two plain users send
   review requests. *)
ReviewTokens == {Admin, Alice, Bob}

NextReviews ==
    \/ add_new_game(Admin, ProbeGame)
    \/ \E token \in ReviewTokens, body \in AddReviewInputs :
            add_new_review(token, FirstGame, body)
    \/ \E token \in ReviewTokens, r_id \in ObjectIds, body \in EditReviewInputs :
            edit_review(token, FirstGame, r_id, body)
    \/ \E token \in ReviewTokens, r_id \in ObjectIds : delete_review(token, FirstGame, r_id)

SpecReviews == Init /\ [][NextReviews]_vars

-----------------------------------------------------------------------------
(* Reads *)
\* str(ObjectId)
str(oid) == JStr(ToString(oid))

\* a review, a game as jsonify sends them: the ObjectIds as strings
review_json(review) == With(review, "_id", str(review._id))
game_json(game) ==
    With(With(game, "_id", str(game._id)), "reviews",
         [j \in 1..Len(game.reviews) |-> review_json(game.reviews[j])])

\* jsonify(document) and jsonify(list)
BodyResponse(status, body) ==
    [status |-> status, msg |-> "", token |-> NoToken, id |-> BadId, body |-> body]

\* request.args.get(name, default): the string sent, or the default
NoArg == JNull
Arg(v, default) == IF v = NoArg THEN JInt(default) ELSE v

\* lines 168-179, 358-367: the page, or the error response
Page(ok, page_num, page_size, rs) ==
    [ok |-> ok, page_num |-> page_num, page_size |-> page_size, resp |-> rs]

pagination(pn, ps, not_integers) ==
    LET page_num == int(Arg(pn, 1))
        page_size == int(Arg(ps, 10))
    IN  IF page_num.raised = "ValueError" \/
           (page_num.raised = "" /\ page_size.raised = "ValueError")
        THEN Page(FALSE, 0, 0, Response(400, not_integers))
        ELSE IF page_num.raised # "" \/ page_size.raised # ""
        THEN Page(FALSE, 0, 0, Unhandled)
        ELSE IF page_num.value < 1 \/ page_size.value < 1
        THEN Page(FALSE, 0, 0,
                  Response(400, "Page number and page size must be positive integers"))
        ELSE Page(TRUE, page_num.value, page_size.value, Response(0, ""))

WindowFromNext(seq, n, m) ==
    SubSeq(seq, n + 2, IF n + m < Len(seq) THEN n + m ELSE Len(seq))

\* cursor.skip(n).limit(m), m >= 1, and list[n:n + m]
Window(seq, n, m) ==
    SubSeq(seq, n + 1, IF n + m < Len(seq) THEN n + m ELSE Len(seq))

\* GET /games?pn=&ps=
show_all_games_result(pn, ps) ==
    LET p == pagination(pn, ps, "Page number and Page size must be integers")
        page_start == p.page_size * (p.page_num - 1)
        page == Window(games, page_start, p.page_size)
    IN  IF ~p.ok THEN p.resp
        ELSE BodyResponse(200, [k \in 1..Len(page) |-> game_json(page[k])])

show_all_games(pn, ps) ==
    /\ resp' = show_all_games_result(pn, ps)
    /\ served' = now
    /\ UNCHANGED <<users, games, blacklist, now, nextId, since, deleted, inflight>>

\* GET /games/<id>
show_one_game_body(gms, id) ==
    IF ~ObjectId_is_valid(id) THEN Response(404, "Invalid Game ID format")
    ELSE IF FindGame(gms, id) # 0 THEN BodyResponse(200, game_json(gms[FindGame(gms, id)]))
    ELSE Response(404, "Invalid Game ID")

show_one_game_result(id) == show_one_game_body(games, id)

show_one_game(id) ==
    /\ resp' = show_one_game_result(id)
    /\ served' = now
    /\ UNCHANGED <<users, games, blacklist, now, nextId, since, deleted, inflight>>

\* GET /games/<id>/reviews?pn=&ps=
fetch_all_reviewsEmptyPage(id, pn, ps) ==
    LET p == pagination(pn, ps, "Page number and page size must be integers")
        page_start == p.page_size * (p.page_num - 1)
        i == FindGame(games, id)
        page == Window(games[i].reviews, page_start, p.page_size)
    IN  IF ~ObjectId_is_valid(id) THEN Response(400, "Invalid Game ID format")
        ELSE IF ~p.ok THEN p.resp
        ELSE IF i = 0 THEN Response(404, "Invalid Game ID")
        ELSE BodyResponse(200, [k \in 1..Len(page) |-> review_json(page[k])])

fetch_all_reviews_result(id, pn, ps) ==
    LET p == pagination(pn, ps, "Page number and page size must be integers")
        page_start == p.page_size * (p.page_num - 1)
        i == FindGame(games, id)
        page == Window(games[i].reviews, page_start, p.page_size)
    IN  IF ~ObjectId_is_valid(id) THEN Response(400, "Invalid Game ID format")
        ELSE IF ~p.ok THEN p.resp
        ELSE IF i = 0 THEN Response(404, "Invalid Game ID")
        ELSE IF Len(games[i].reviews) = 0 THEN Response(404, "No reviews found")
        ELSE BodyResponse(200, [k \in 1..Len(page) |-> review_json(page[k])])

fetch_all_reviews(id, pn, ps) ==
    /\ resp' = fetch_all_reviews_result(id, pn, ps)
    /\ served' = now
    /\ UNCHANGED <<users, games, blacklist, now, nextId, since, deleted, inflight>>

(* SpecCatalog: the catalog and what the read requests show of it.  The admin
   adds games, with and without the optional fields, and sets developer_hq; a
   user reviews the first game; anyone reads. *)
HqText == Point(<<JStr("a"), JStr("b")>>)
RichGame == With(With(FullGame("Doom"), "rating", JInt(9)), "developer_hq", HqGood)
CatalogGames == {Json(FullGame("Halo")), Json(RichGame)}
PageArgs == {NoArg, JStr("1"), JStr("2"), JStr("0"), JStr("abc")}

NextCatalog ==
    \/ \E body \in CatalogGames : add_new_game(Admin, body)
    \/ \E id \in ObjectIds : edit_game(Admin, id, Json([developer_hq |-> HqText]))
    \/ add_new_review(Alice, FirstGame, ProbeReview)
    \/ \E id \in {BadId} \cup ObjectIds : show_one_game(id)
    \/ \E pn \in PageArgs, ps \in PageArgs : show_all_games(pn, ps)
    \/ \E id \in {BadId, FirstGame, FirstGame + 1}, pn \in PageArgs, ps \in PageArgs :
            fetch_all_reviews(id, pn, ps)

SpecCatalog == Init /\ [][NextCatalog]_vars

-----------------------------------------------------------------------------
(* Requests that overlap: a handler runs up to its last read of the database
   (the decorator's blacklist.find_one, the handler's find_one), other
   requests run, then it makes its one write (insert_one, update_one) and
   answers. *)
InFlight == BagToSet(inflight)
Start(q) == inflight (+) SetToBag({q})
Finish(q) == inflight (-) SetToBag({q})

\* POST /games/<g_id>/reviews: lines 400-430, then lines 432-434
AddReviewRequest(g_id, review) == [op |-> "add_new_review", g_id |-> g_id, review |-> review]

add_new_review_begin(token, g_id, body) ==
    LET g == token_required(token, blacklist, now)
        b == add_new_review_body(games, g.user, g_id, body)
    IN  /\ UNCHANGED <<users, games, blacklist, now, since, deleted>>
        /\ IF ~g.ok \/ ~b.push
           THEN /\ resp' = (IF ~g.ok THEN Response(g.status, g.msg) ELSE b.resp)
                /\ served' = now
                /\ UNCHANGED <<inflight, nextId>>
           ELSE /\ BagCardinality(inflight) < MaxInflight
                /\ nextId <= MaxId
                /\ inflight' = Start(AddReviewRequest(g_id,
                                    new_review(g.user, body.data, b.rating, nextId)))
                /\ nextId' = nextId + 1
                /\ UNCHANGED <<resp, served>>

add_new_review_finish_result(gms, q) ==
    [resp |-> Response(201, "Review added successfully"),
     games |-> update_one_push(gms, q.g_id, q.review).games]

add_new_review_finish(q) ==
    LET o == add_new_review_finish_result(games, q) IN
    /\ q \in InFlight /\ q.op = "add_new_review"
    /\ inflight' = Finish(q)
    /\ games' = o.games
    /\ resp' = o.resp
    /\ served' = now
    /\ UNCHANGED <<users, blacklist, now, nextId, since, deleted>>

\* PUT /games/<g_id>/reviews/<r_id>: lines 484-521, then lines 523-525
EditReviewRequest(g_id, r_id, fields) ==
    [op |-> "edit_review", g_id |-> g_id, r_id |-> r_id, fields |-> fields]

edit_review_begin(token, g_id, r_id, body) ==
    LET g == token_required(token, blacklist, now)
        b == edit_review_body(games, g.user, g_id, r_id, body)
    IN  /\ UNCHANGED <<users, games, blacklist, now, nextId, since, deleted>>
        /\ IF ~g.ok \/ ~b.update
           THEN /\ resp' = (IF ~g.ok THEN Response(g.status, g.msg) ELSE b.resp)
                /\ served' = now
                /\ UNCHANGED inflight
           ELSE /\ BagCardinality(inflight) < MaxInflight
                /\ inflight' = Start(EditReviewRequest(g_id, r_id, b.fields))
                /\ UNCHANGED <<resp, served>>

edit_review_finish_result(gms, q) ==
    [resp |-> Response(200, "Review updated successfully"),
     games |-> update_one_set_review(gms, q.g_id, q.r_id, q.fields).games]

edit_review_finish(q) ==
    LET o == edit_review_finish_result(games, q) IN
    /\ q \in InFlight /\ q.op = "edit_review"
    /\ inflight' = Finish(q)
    /\ games' = o.games
    /\ resp' = o.resp
    /\ served' = now
    /\ UNCHANGED <<users, blacklist, now, nextId, since, deleted>>

\* DELETE /games/<g_id>/reviews/<r_id>: lines 537-552, then lines 554-562
DeleteReviewRequest(g_id, r_id) == [op |-> "delete_review", g_id |-> g_id, r_id |-> r_id]

delete_review_begin(token, g_id, r_id) ==
    LET g == token_required(token, blacklist, now)
        c == delete_review_body(games, g.user, g_id, r_id)
    IN  /\ UNCHANGED <<users, games, blacklist, now, nextId, since, deleted>>
        /\ IF ~g.ok \/ c.status # 0
           THEN /\ resp' = (IF ~g.ok THEN Response(g.status, g.msg) ELSE c)
                /\ served' = now
                /\ UNCHANGED inflight
           ELSE /\ BagCardinality(inflight) < MaxInflight
                /\ inflight' = Start(DeleteReviewRequest(g_id, r_id))
                /\ UNCHANGED <<resp, served>>

delete_review_finish_resultIgnoreCount(gms, q) ==
    [resp |-> Response(200, "Review deleted successfully"),
     games |-> update_one_pull(gms, q.g_id, q.r_id).games]

delete_review_finish_result(gms, q) ==
    LET result == update_one_pull(gms, q.g_id, q.r_id) IN
    IF result.modified_count = 1
    THEN [resp |-> Response(200, "Review deleted successfully"), games |-> result.games]
    ELSE [resp |-> Response(500, "Delete failed"), games |-> result.games]

delete_review_finish(q) ==
    LET o == delete_review_finish_result(games, q) IN
    /\ q \in InFlight /\ q.op = "delete_review"
    /\ inflight' = Finish(q)
    /\ games' = o.games
    /\ resp' = o.resp
    /\ served' = now
    /\ deleted' = IF o.resp.status = 200 THEN deleted \cup {q.r_id} ELSE deleted
    /\ UNCHANGED <<users, blacklist, now, nextId, since>>

\* POST /register: lines 82-92, then lines 95-104
RegisterRequest(username, password) ==
    [op |-> "register", username |-> username, password |-> password]

register_begin(data) ==
    LET o == register_result(data) IN
    /\ UNCHANGED <<users, games, blacklist, now, nextId, since, deleted>>
    /\ IF o.users = users
       THEN resp' = o.resp /\ served' = now /\ UNCHANGED inflight
       ELSE /\ BagCardinality(inflight) < MaxInflight
            /\ inflight' = Start(RegisterRequest(data.username, data.password))
            /\ UNCHANGED <<resp, served>>

register_finish(q) ==
    /\ q \in InFlight /\ q.op = "register"
    /\ nextId <= MaxId
    /\ inflight' = Finish(q)
    /\ users' = Append(users, new_user(q.username, hashpw(q.password, nextId), nextId))
    /\ resp' = Response(201, "User registered successfully")
    /\ served' = now
    /\ nextId' = nextId + 1
    /\ since' = [i \in DOMAIN since \cup {nextId} |-> IF i = nextId THEN now ELSE since[i]]
    /\ UNCHANGED <<games, blacklist, now, deleted>>

(* SpecRace: review requests of the admin, a review's owner and another user
   on the first game that overlap each other and delete_game. *)
ReviewIds == (FirstGame + 1)..MaxId
EditComment == Json([comment |-> JStr("c2")])
EditRating == Json([rating |-> JInt(MinRating)])

NextRace ==
    \/ add_new_game(Admin, ProbeGame)
    \/ delete_game(Admin, FirstGame)
    \/ add_new_review_begin(Alice, FirstGame, ProbeReview)
    \/ \E r_id \in ReviewIds : edit_review_begin(Alice, FirstGame, r_id, EditComment)
    \/ \E token \in {Admin, Bob}, r_id \in ReviewIds :
            delete_review_begin(token, FirstGame, r_id)
    \/ \E q \in InFlight : add_new_review_finish(q)
    \/ \E q \in InFlight : edit_review_finish(q)
    \/ \E q \in InFlight : delete_review_finish(q)

SpecRace == Init /\ [][NextRace]_vars

(* SpecUpdates: add_new_review and edit_review requests on the first game
   that overlap; nothing is deleted. *)
NextUpdates ==
    \/ add_new_game(Admin, ProbeGame)
    \/ add_new_review_begin(Alice, FirstGame, ProbeReview)
    \/ \E r_id \in ReviewIds, body \in {EditComment, EditRating} :
            edit_review_begin(Admin, FirstGame, r_id, body)
    \/ \E q \in InFlight : add_new_review_finish(q)
    \/ \E q \in InFlight : edit_review_finish(q)

SpecUpdates == Init /\ [][NextUpdates]_vars

(* SpecRegister: register requests that overlap. *)
NextRegister ==
    \/ \E data \in RegisterInputs : register_begin(data)
    \/ \E q \in InFlight : register_finish(q)

SpecRegister == Init /\ [][NextRegister]_vars

(* SpecEdits: edit_review requests of the admin, the owner and another user
   on the reviews of the first of two games. *)
NextEdits ==
    \/ \E title \in Titles : add_new_game(Admin, Json(FullGame(title)))
    \/ \E token \in {Alice, Bob} : add_new_review(token, FirstGame, ProbeReview)
    \/ \E token \in ReviewTokens, r_id \in ReviewIds, body \in {EditComment, EditRating} :
            edit_review(token, FirstGame, r_id, body)

SpecEdits == Init /\ [][NextEdits]_vars

(* SpecPlain: every route that writes, called with every token a client can
   hold, on a database that holds one game and either the seed users or the
   same users with no admin among them. *)
PlainUsers == [i \in 1..Len(SeedUsers) |-> [SeedUsers[i] EXCEPT !.admin = FALSE]]
SeedGame == With(new_game(FullGame("Halo")), "_id", FirstGame)
Carol == [username |-> "carol", password |-> "pw1"]

InitPlain ==
    /\ users \in {SeedUsers, PlainUsers}
    /\ games = <<SeedGame>>
    /\ blacklist = {}
    /\ now = 0
    /\ nextId = FirstGame + 1
    /\ since = [i \in 1..Len(SeedUsers) |-> 0]
    /\ deleted = {}
    /\ inflight = EmptyBag
    /\ resp = Response(0, "")
    /\ served = 0

\* the tokens of root and of carol, once registered, and a forged one
PlainTokens ==
    {ForgedToken} \cup {t \in SignedTokens : t.username \in {"root", "carol"}}

NextPlain ==
    \/ register(Carol)
    \/ \E data \in {Carol, [username |-> "root", password |-> "pw1"]} :
            login(NoCredentials, data)
    \/ \E token \in PlainTokens : logout(token)
    \/ \E token \in PlainTokens : add_new_game(token, Json(FullGame("Doom")))
    \/ \E token \in PlainTokens :
            edit_game(token, FirstGame, Json([developer |-> JStr("343")]))
    \/ \E token \in PlainTokens : delete_game(token, FirstGame)
    \/ \E token \in PlainTokens : add_new_review(token, FirstGame, ProbeReview)
    \/ \E token \in PlainTokens, r_id \in ReviewIds :
            edit_review(token, FirstGame, r_id, EditComment)
    \/ \E token \in PlainTokens, r_id \in ReviewIds :
            delete_review(token, FirstGame, r_id)

SpecPlain == InitPlain /\ [][NextPlain]_vars

-----------------------------------------------------------------------------
(* The requests behind each decorator that the token claims are checked for,
   in every state reached: what each answers and leaves in db.games and
   db.blacklist. *)
Outcome(rs, gms, bl) == [resp |-> rs, games |-> gms, blacklist |-> bl]
ProbeIds == {BadId, FirstGame, FirstGame + 1}

token_required_outcomes(token) ==
    {Outcome(logout_result(token).resp, games, logout_result(token).blacklist)} \cup
    {Outcome(o.resp, o.games, blacklist) :
        o \in {add_new_review_result(token, FirstGame, ProbeReview)} \cup
              {edit_review_result(token, FirstGame, r_id, Json([comment |-> JStr("c2")])) :
                    r_id \in ProbeIds} \cup
              {delete_review_result(token, FirstGame, r_id) : r_id \in ProbeIds}}

admin_required_outcomes(token) ==
    {Outcome(o.resp, o.games, blacklist) :
        o \in {add_new_game_result(token, Json(FullGame(t))) : t \in Titles} \cup
              {edit_game_result(token, id, Json([title |-> JStr("Doom")])) : id \in ProbeIds} \cup
              {delete_game_result(token, id) : id \in ProbeIds}}

Blacklisted == Response(401, "Token has been blacklisted")
LoggedOut == Response(200, "Successfully logged out")

(* C1: a token that logout answered 200 for is in the blacklist; every request
   behind token_required or admin_required that presents a blacklisted token
   is answered 401 "Token has been blacklisted" and changes nothing, whether
   or not the token has expired; no step takes a token out of the blacklist. *)
C1_Rejected ==
    /\ \A t \in PresentedTokens :
            logout_result(t).resp = LoggedOut => t \in logout_result(t).blacklist
    /\ \A t \in blacklist :
            \A o \in token_required_outcomes(t) \cup admin_required_outcomes(t) :
                o = Outcome(Blacklisted, games, blacklist)

C1_LoggedOutTokenStaysRejected == []C1_Rejected /\ [][blacklist \subseteq blacklist']_vars

\* a blacklisted token that has not expired has just been turned away
C1_Witness ==
    /\ resp = Blacklisted
    /\ served = now
    /\ blacklist # {}
    /\ \A t \in blacklist : t.exp > now

\* present, correctly signed, unexpired and not blacklisted
ValidToken(t) == t.kind = "jwt" /\ t.exp > now /\ t \notin blacklist

(* C3: add_new_game, edit_game and delete_game change db.games only for a
   valid token whose admin claim is true; a valid token without it is
   answered 403 "Admin privileges required", every other token 401, and
   db.games stays as it is. *)
C3_GamesChangeOnlyForAdmin ==
    \A t \in PresentedTokens : \A o \in admin_required_outcomes(t) :
        /\ o.games # games => (ValidToken(t) /\ t.admin)
        /\ (ValidToken(t) /\ ~t.admin) =>
                o = Outcome(Response(403, "Admin privileges required"), games, blacklist)
        /\ ~ValidToken(t) => (o.resp.status = 401 /\ o.games = games)

\* a plain user has just been refused while there is a game to change
C3_Witness ==
    /\ resp = Response(403, "Admin privileges required")
    /\ served = now
    /\ Len(games) > 0

(* C6: a request without a token is answered 401 "Token missing"; one with a
   blacklisted token 401 "Token has been blacklisted", expired or not; one
   with an expired token that is not blacklisted 401 "Token expired"; one with
   a badly signed token 401 "Invalid token"; in each case nothing changes.
   Any other token gets past these four answers. *)
GuardErrors ==
    {Response(401, m) : m \in {"Token missing", "Token has been blacklisted",
                               "Token expired", "Invalid token"}}

C6_ValidationOrder ==
    \A t \in PresentedTokens :
        \A o \in token_required_outcomes(t) \cup admin_required_outcomes(t) :
            /\ t = NoToken => o = Outcome(Response(401, "Token missing"), games, blacklist)
            /\ t \in blacklist => o = Outcome(Blacklisted, games, blacklist)
            /\ (t.kind = "jwt" /\ t \notin blacklist /\ t.exp <= now) =>
                    o = Outcome(Response(401, "Token expired"), games, blacklist)
            /\ (t = ForgedToken /\ t \notin blacklist) =>
                    o = Outcome(Response(401, "Invalid token"), games, blacklist)
            /\ ValidToken(t) => o.resp \notin GuardErrors

\* a token that is both blacklisted and expired has just been turned away
C6_Witness ==
    /\ resp = Blacklisted
    /\ served = now
    /\ blacklist # {}
    /\ \A t \in blacklist : t.exp <= now

-----------------------------------------------------------------------------
\* the registered user credentials c belong to, or 0
Authenticates(c) ==
    IF \E i \in 1..Len(users) :
            users[i].username = c.username /\ users[i].password.digest[2] = c.password
    THEN CHOOSE i \in 1..Len(users) :
            users[i].username = c.username /\ users[i].password.digest[2] = c.password
    ELSE 0

\* what C7 says login answers to credentials c, sent either way
LoginAnswer(c) ==
    IF Authenticates(c) # 0
    THEN TokenResponse(Token(users[Authenticates(c)], now + TokenLifetime))
    ELSE Response(401, "Invalid credentials")

(* C7: login with a user name and a password, in the Basic Auth header or in
   the JSON body, answers with a token carrying the user's user_id, username
   and admin flag and expiring 30 minutes later when they are those of a
   registered user, and with 401 and no token when they are not. *)
C7_BothLoginPathsIssueToken ==
    [][\A c \in Credentials :
            (c.username # "" /\ c.password # "" /\
             (login(c, NoCredentials) \/ login(NoCredentials, c)))
                => resp' = LoginAnswer(c)]_vars

(* C8: register with a user name and a password answers 409 and leaves
   db.users as it is when the user name is taken; otherwise it answers 201
   without a token and appends one record with that user name, the hash of
   the password and admin false. *)
C8_RegisterConflictOrInsert ==
    \A data \in RegisterInputs :
        (data.username # "" /\ data.password # "") =>
            LET o == register_result(data)
                n == Len(users)
            IN  /\ o.resp.token = NoToken
                /\ IF \E i \in 1..n : users[i].username = data.username
                   THEN o.resp.status = 409 /\ o.users = users
                   ELSE /\ o.resp.status = 201
                        /\ Len(o.users) = n + 1
                        /\ SubSeq(o.users, 1, n) = users
                        /\ o.users[n + 1].username = data.username
                        /\ o.users[n + 1].admin = FALSE
                        /\ checkpw(data.password, o.users[n + 1].password)

\* a user name registered a moment ago has just been refused
C8_Witness ==
    /\ resp = Response(409, "Username already exists")
    /\ served = now
    /\ Len(users) > Len(SeedUsers)
    /\ since[users[Len(users)]._id] = now

-----------------------------------------------------------------------------
\* the reviews of the first game
TheReviews(gms) ==
    IF FindGame(gms, FirstGame) = 0 THEN << >> ELSE gms[FindGame(gms, FirstGame)].reviews

(* C2: for a review of a game and a caller with a valid token, sending a JSON
   body to edit_review: edit_review and delete_review change db.games only if
   the caller is an admin or the review's user_id is the caller's; any other
   caller is answered 403 and db.games stays as it is; an admin's edit_review
   of any review is answered 200 and sets the field sent, an admin's
   delete_review of any review is answered 200 and removes it. *)
C2_OnlyAdminOrOwnerChangesReview ==
    \A token \in ReviewTokens, r_id \in ObjectIds :
        LET j == FindReview(TheReviews(games), r_id)
            may == token.admin \/ (j # 0 /\ TheReviews(games)[j].user_id = token.user_id)
            d == delete_review_result(token, FirstGame, r_id)
        IN  /\ d.games # games => (j # 0 /\ may)
            /\ (j # 0 /\ ~may) =>
                    d = [resp |-> Response(403, "Not authorized to delete this review"),
                         games |-> games]
            /\ (j # 0 /\ token.admin) =>
                    /\ d.resp = Response(200, "Review deleted successfully")
                    /\ FindReview(TheReviews(d.games), r_id) = 0
                    /\ Len(TheReviews(d.games)) = Len(TheReviews(games)) - 1
            /\ \A body \in AllEditReviewInputs :
                    LET e == edit_review_result(token, FirstGame, r_id, body) IN
                    /\ e.games # games => (j # 0 /\ may)
                    /\ (j # 0 /\ ~may /\ body.is_json) =>
                            e = [resp |-> Response(403, "Not authorized to edit this review"),
                                 games |-> games]
                    /\ (j # 0 /\ token.admin /\ body = Json([comment |-> JStr("c2")])) =>
                            /\ e.resp = Response(200, "Review updated successfully")
                            /\ TheReviews(e.games)[j] =
                                    With(TheReviews(games)[j], "comment", JStr("c2"))

\* a plain user has just been refused the edit of another user's review
C2_Witness ==
    /\ resp = Response(403, "Not authorized to edit this review")
    /\ Len(TheReviews(games)) > 0

\* the rating is an integer, as a JSON number or in decimal digits
ParsesAsInteger(r) ==
    \/ r.t = "int"
    \/ r.t = "str" /\ \A k \in 1..Len(Chars(r.s)) : DigitValue(Chars(r.s)[k]) >= 0

InRange(r) == ParsesAsInteger(r) /\ int(r).value \in MinRating..MaxRating

StoredRatingsInRange ==
    \A i \in 1..Len(games) : \A j \in 1..Len(games[i].reviews) :
        games[i].reviews[j].rating \in MinRating..MaxRating

(* C4: add_new_review on a game, and edit_review of a review by a caller who
   may edit it, answer with success exactly when the rating sent is an
   integer from 1 to 10, and otherwise with 400, the reviews staying as they
   are; every stored review has a rating from 1 to 10. *)
C4_RatingDecidesSuccess ==
    /\ [][\A token \in ReviewTokens, r \in RatingInputs :
            /\ (FindGame(games, FirstGame) # 0 /\
                add_new_review(token, FirstGame, Json([comment |-> JStr("c1"), rating |-> r])))
                    => IF InRange(r) THEN resp'.status = 201
                       ELSE resp'.status = 400 /\ games' = games
            /\ \A r_id \in ObjectIds :
                (/\ FindReview(TheReviews(games), r_id) # 0
                 /\ ~forbidden(token, TheReviews(games)[FindReview(TheReviews(games), r_id)])
                 /\ edit_review(token, FirstGame, r_id, Json([rating |-> r])))
                    => IF InRange(r) THEN resp'.status = 200
                       ELSE resp'.status = 400 /\ games' = games]_vars
    /\ []StoredRatingsInRange

(* C5: no two games have the same title. *)
C5_TitlesUnique ==
    \A i, j \in 1..Len(games) : i # j => games[i].title # games[j].title

\* games without the one with this id
GamesWithout(gms, id) == SelectSeq(gms, LAMBDA doc : doc._id # id)

(* C9: a delete_game request of an admin that reaches games.delete_one is
   answered 204 and removes the game when the game is there, and 404 leaving
   db.games as it is when it is not; a game that a request was answered 204
   for is gone for good, so that no second request is answered 204 for it;
   and a game goes only with a 204. *)
C9_Deleted ==
    /\ \A id \in deleted : FindGame(games, id) = 0
    /\ \A id \in ObjectIds :
            LET b == delete_game_body(games, id) IN
            IF FindGame(games, id) # 0
            THEN b = EditResult(Response(204, ""), GamesWithout(games, id))
                 /\ Len(b.games) = Len(games) - 1
            ELSE b.resp.status = 404 /\ b.games = games

C9_ExactlyOneDeleteSucceeds ==
    /\ []C9_Deleted
    /\ [][\A id \in ObjectIds :
            (FindGame(games, id) # 0 /\ FindGame(games', id) = 0)
                => (id \in deleted' \ deleted /\ resp'.status = 204)]_vars

\* every game there has been is deleted, and a further request for one of
\* them, sent while another was on its way, has just been answered 404
C9_Witness ==
    /\ resp = Response(404, "Invalid Game ID")
    /\ deleted = ObjectIds
    /\ inflight # EmptyBag

\* the payload has a field edit_game takes
Recognized(body) ==
    body.is_json /\ DOMAIN body.data \cap (Range(required_fields) \cup {"developer_hq"}) # {}

(* C10: edit_game of an admin with a well-formed id of no game and a payload
   with a field it takes is answered 404 and leaves db.games as it is. *)
C10_EditAbsentGameNotFound ==
    [][\A id \in ObjectIds, body \in AllEditGameInputs :
            (FindGame(games, id) = 0 /\ Recognized(body) /\ edit_game(Admin, id, body))
                => (resp'.status = 404 /\ games' = games)]_vars

-----------------------------------------------------------------------------
\* the game sent as F, as the round trip would show it under id
RoundTrip(F, id) == With(With(With(F, "_id", str(id)), "reviews", << >>), "awards", << >>)

\* the field sets F: the required fields, with and without rating and a
\* well-formed developer_hq
FieldSets ==
    {FullGame("Halo"), RichGame, With(FullGame("Doom"), "rating", JInt(9)),
     With(FullGame("Halo"), "developer_hq", HqGood)}

(* C11 as claimed: when add_new_game answers 201 to the fields F,
   show_one_game of the id it returned shows the fields of F with their
   values, the id, empty reviews and empty awards, and nothing else. *)
C11_RoundTripExactlyF ==
    [][\A F \in FieldSets :
            (add_new_game(Admin, Json(F)) /\ resp'.status = 201)
                => show_one_game_body(games', resp'.id) =
                        BodyResponse(200, RoundTrip(F, resp'.id))]_vars

(* C11 as amended: when add_new_game answers 201 to the fields F (the eight
   required fields with or without rating and a well-formed developer_hq),
   show_one_game of the id it returned shows the fields of F with their
   values, rating null when F has no rating, the id, empty reviews and empty
   awards, and nothing else. *)
C11_RoundTripWithRating ==
    \A F \in FieldSets :
        LET o == add_new_game_result(Admin, Json(F))
            shown == IF "rating" \in DOMAIN F THEN F ELSE With(F, "rating", JNull)
        IN  o.resp.status = 201
                => show_one_game_body(o.games, o.resp.id) =
                        BodyResponse(200, RoundTrip(shown, o.resp.id))

\* show_one_game has just shown a game that was added without a rating
C11_Witness ==
    /\ resp.status = 200
    /\ "body" \in DOMAIN resp
    /\ resp.body = RoundTrip(With(FullGame("Halo"), "rating", JNull), FirstGame)
    /\ FindGame(games, FirstGame) # 0

(* C12 as claimed: logout with a token that is in the blacklist answers
   "Token already blacklisted" and inserts nothing; logout with a valid token
   that is not in the blacklist inserts it and answers 200. *)
C12_AlreadyBlacklistedAnswer ==
    [][\A t \in PresentedTokens :
            logout(t) =>
                /\ t \in blacklist =>
                        (resp'.msg = "Token already blacklisted" /\ blacklist' = blacklist)
                /\ ValidToken(t) =>
                        (resp' = LoggedOut /\ blacklist' = blacklist \cup {t})]_vars

(* C12 as amended: logout with a token that is in the blacklist answers 401
   "Token has been blacklisted", the answer of token_required, and inserts
   nothing; logout with a valid token that is not in the blacklist, served
   without another logout of that token in between, inserts it and answers
   200. *)
C12_LogoutOfBlacklistedToken ==
    \A t \in PresentedTokens :
        /\ t \in blacklist =>
                logout_result(t) = [resp |-> Blacklisted, blacklist |-> blacklist]
        /\ ValidToken(t) =>
                /\ logout_result(t) = [resp |-> LoggedOut, blacklist |-> blacklist \cup {t}]
                /\ logout_result(t).blacklist # blacklist

\* a valid token has just been logged out
C12_Witness ==
    /\ resp = LoggedOut
    /\ served = now
    /\ \E t \in blacklist : t.exp > now

-----------------------------------------------------------------------------
\* a point with the type tag "Point" and exactly two numeric coordinates
WellFormedPoint(hq) ==
    /\ hq.t = "dict"
    /\ DOMAIN hq.d = {"type", "coordinates"}
    /\ hq.d["type"] = JStr("Point")
    /\ hq.d["coordinates"].t = "list"
    /\ Len(hq.d["coordinates"].items) = 2
    /\ \A k \in 1..2 : hq.d["coordinates"].items[k].t \in {"int", "float"}

(* C13: every stored developer_hq is a point with the type tag "Point" and
   exactly two numeric coordinates; add_new_game with a new title and
   edit_game of an existing game, sent a developer_hq of another shape,
   answer 400 and leave db.games as it is. *)
C13_DeveloperHqWellFormed ==
    /\ [](\A i \in 1..Len(games) :
            "developer_hq" \in DOMAIN games[i] => WellFormedPoint(games[i].developer_hq))
    /\ [][\A hq \in {HqText, HqThree} :
            /\ \A t \in Titles :
                    (~FindTitle(games, JStr(t)) /\
                     add_new_game(Admin, Json(With(FullGame(t), "developer_hq", hq))))
                        => (resp'.status = 400 /\ games' = games)
            /\ \A id \in ObjectIds :
                    (FindGame(games, id) # 0 /\
                     edit_game(Admin, id, Json([developer_hq |-> hq])))
                        => (resp'.status = 400 /\ games' = games)]_vars

\* the page arguments that are integers from 1 on, with their values
PageNumbers == {NoArg, JStr("1"), JStr("2"), JStr("3"), JStr("10")}
BadPageArgs == {JStr("0"), JStr("-1"), JStr("abc"), JStr("1.5")}
PageValue(arg, default) == IF arg = NoArg THEN default ELSE Decimal(Chars(arg.s))
PageArg(k) == JStr(ToString(k))

\* the elements of seq from offset start on, at most size of them
Expected(seq, start, size) ==
    [k \in 1..(IF Len(seq) - start < 0 THEN 0
               ELSE IF Len(seq) - start < size THEN Len(seq) - start ELSE size)
        |-> seq[start + k]]

\* pages 1..n of the games and of the reviews of the first game, one after
\* the other
RECURSIVE GamePages(_, _)
GamePages(n, ps) ==
    IF n = 0 THEN << >>
    ELSE GamePages(n - 1, ps) \o show_all_games_result(PageArg(n), ps).body

RECURSIVE ReviewPages(_, _)
ReviewPages(n, ps) ==
    IF n = 0 THEN << >>
    ELSE ReviewPages(n - 1, ps) \o fetch_all_reviews_result(FirstGame, PageArg(n), ps).body

AllGames == [k \in 1..Len(games) |-> game_json(games[k])]
AllReviews == [k \in 1..Len(TheReviews(games)) |-> review_json(TheReviews(games)[k])]
LastPage == MaxGames + 1     \* no collection of the model is longer

(* C14: for page_num >= 1 and page_size >= 1, show_all_games, and
   fetch_all_reviews of a game that has reviews, answer 200 with the at most
   page_size elements from offset page_size * (page_num - 1) on, in stored
   order, and pages 1, 2, ... one after the other are the whole collection,
   each element once; a page_num or page_size that is not an integer or is
   below 1 is answered 400. *)
C14_Pagination ==
    /\ \A pn \in PageNumbers, ps \in PageNumbers :
            LET start == PageValue(ps, 10) * (PageValue(pn, 1) - 1)
                size == PageValue(ps, 10)
            IN  /\ show_all_games_result(pn, ps) =
                        BodyResponse(200, Expected(AllGames, start, size))
                /\ Len(Expected(AllGames, start, size)) <= size
                /\ Len(TheReviews(games)) > 0 =>
                        fetch_all_reviews_result(FirstGame, pn, ps) =
                            BodyResponse(200, Expected(AllReviews, start, size))
    /\ \A ps \in PageNumbers :
            /\ GamePages(LastPage, ps) = AllGames
            /\ Len(TheReviews(games)) > 0 => ReviewPages(LastPage, ps) = AllReviews
    /\ \A pn \in PageNumbers \cup BadPageArgs, ps \in PageNumbers \cup BadPageArgs :
            (pn \in BadPageArgs \/ ps \in BadPageArgs) =>
                /\ show_all_games_result(pn, ps).status = 400
                /\ fetch_all_reviews_result(FirstGame, pn, ps).status = 400

\* the second page of size 1 of two games has just been shown
C14_Witness ==
    /\ Len(games) = 2
    /\ resp = BodyResponse(200, <<game_json(games[2])>>)

(* C15: for a well-formed id and valid page arguments, fetch_all_reviews
   answers 404 "Invalid Game ID" when there is no such game, 404 "No reviews
   found" on every page when the game has no review, and 200 on every page,
   also past the last review, when the game has a review. *)
C15_ThreeCases ==
    \A id \in {Len(SeedUsers)} \cup ObjectIds, pn \in PageNumbers, ps \in PageNumbers :
        LET i == FindGame(games, id)
            r == fetch_all_reviews_result(id, pn, ps)
        IN  /\ i = 0 => r = Response(404, "Invalid Game ID")
            /\ (i # 0 /\ Len(games[i].reviews) = 0) => r = Response(404, "No reviews found")
            /\ (i # 0 /\ Len(games[i].reviews) > 0) =>
                    /\ r.status = 200
                    /\ PageValue(ps, 10) * (PageValue(pn, 1) - 1) >= Len(games[i].reviews)
                            => r = BodyResponse(200, << >>)

\* a game without reviews has just been asked for its reviews
C15_Witness ==
    /\ resp = Response(404, "No reviews found")
    /\ FindGame(games, FirstGame) # 0
    /\ Len(TheReviews(games)) = 0

-----------------------------------------------------------------------------
(* Overlapping delete_review requests *)
Present(gms, g_id, r_id) ==
    /\ FindGame(gms, g_id) # 0
    /\ FindReview(gms[FindGame(gms, g_id)].reviews, r_id) # 0

Removed(seq, r_id) == SelectSeq(seq, LAMBDA review : review._id # r_id)

(* C16: when delete_review requests for the same review overlap, the $pull of
   a request finds the review and answers 200 "Review deleted successfully",
   taking exactly that element out of the game's review sequence, or finds
   nothing, answers 500 "Delete failed" and changes nothing; a request that
   starts after the review is gone answers 404 "Review not found"; a review
   answered for with 200 is never in the sequence again, so no second request
   succeeds for it, and a review leaves the sequence only with a 200. *)
C16_ExactlyOneDeleteReviewSucceeds ==
    /\ \A r_id \in deleted : ~Present(games, FirstGame, r_id)
    /\ \A q \in InFlight : q.op = "delete_review" =>
            LET o == delete_review_finish_result(games, q)
                i == FindGame(games, q.g_id)
            IN  IF Present(games, q.g_id, q.r_id)
                THEN /\ o.resp = Response(200, "Review deleted successfully")
                     /\ q.r_id \notin deleted
                     /\ o.games = [games EXCEPT ![i].reviews = Removed(@, q.r_id)]
                     /\ Len(o.games[i].reviews) = Len(games[i].reviews) - 1
                ELSE /\ o.resp = Response(500, "Delete failed")
                     /\ o.games = games
    /\ \A token \in {Admin, Bob}, r_id \in ReviewIds :
            (FindGame(games, FirstGame) # 0 /\ ~Present(games, FirstGame, r_id)) =>
                LET g == token_required(token, blacklist, now) IN
                /\ g.ok
                /\ delete_review_body(games, g.user, FirstGame, r_id)
                        = Response(404, "Review not found")

\* a second request for a review has just been answered 500 "Delete failed":
\* the review was there when it started and another request removed it
C16_Witness ==
    /\ resp = Response(500, "Delete failed")
    /\ FindGame(games, FirstGame) # 0
    /\ \E r_id \in deleted : r_id \in ReviewIds

-----------------------------------------------------------------------------
(* Success answers of add_new_review and edit_review *)
Written(gms, q) ==
    /\ Present(gms, q.g_id, q.r_id)
    /\ LET reviews == gms[FindGame(gms, q.g_id)].reviews
           review == reviews[FindReview(reviews, q.r_id)]
       IN  \A field \in DOMAIN q.fields : review[field] = q.fields[field]

(* C17: no false success: when the write of an add_new_review request is
   answered 201 the new review is in the game's review sequence, and when the
   write of an edit_review request is answered 200 the supplied fields are in
   the targeted review, whatever delete_review and delete_game requests ran
   between the request's checks and its write. *)
C17_NoFalseSuccess ==
    [][\A q \in InFlight :
        /\ (add_new_review_finish(q) /\ resp'.status = 201)
                => Present(games', q.g_id, q.review._id)
        /\ (edit_review_finish(q) /\ resp'.status = 200)
                => Written(games', q)]_vars

-----------------------------------------------------------------------------
(* Overlapping add_new_review and edit_review requests on one game *)
Pushing(id) == \E q \in InFlight : q.op = "add_new_review" /\ q.review._id = id

Edited(old, new, q) ==
    /\ Len(new) = Len(old)
    /\ \A j \in 1..Len(old) :
        /\ DOMAIN new[j] = DOMAIN old[j]
        /\ \A field \in DOMAIN old[j] :
            new[j][field] = IF old[j]._id = q.r_id /\ field \in DOMAIN q.fields
                            THEN q.fields[field]
                            ELSE old[j][field]

(* C18: no lost updates on one game: every review an add_new_review request
   has made is in the game's review sequence once its $push has run (it is
   missing only while the request is between its checks and its $push); the
   $push of a request appends its review and leaves every other review as it
   was; the $set of an edit_review request changes only the supplied fields
   of the targeted review and leaves every other review and field as it was;
   nothing else changes the sequence. *)
C18_NoLostUpdates ==
    /\ [](\A id \in ReviewIds : id < nextId =>
            (Present(games, FirstGame, id) \/ Pushing(id)))
    /\ [][LET old == TheReviews(games)
              new == TheReviews(games')
          IN  /\ \A q \in InFlight :
                    add_new_review_finish(q) => new = Append(old, q.review)
              /\ \A q \in InFlight :
                    edit_review_finish(q) => Edited(old, new, q)
              /\ new # old => \E q \in InFlight :
                    add_new_review_finish(q) \/ edit_review_finish(q)]_vars

\* two add_new_review requests overlapped (the later one pushed first), an
\* edit_review changed one of the two reviews, and both reviews are there
C18_Witness ==
    LET reviews == TheReviews(games) IN
    /\ Len(reviews) = 2
    /\ reviews[1]._id > reviews[2]._id
    /\ reviews[1].comment # reviews[2].comment
    /\ inflight = EmptyBag

-----------------------------------------------------------------------------
(* Overlapping register requests *)
(* C19: whatever register requests overlap, no two user records have the
   same username. *)
C19_UsernamesUnique ==
    \A i, j \in 1..Len(users) : users[i].username = users[j].username => i = j

-----------------------------------------------------------------------------
(* Fail fast *)
ClientErrors == {400, 401, 403, 404, 409}

FailFastTokens == {NoToken, ForgedToken} \cup ReviewTokens

FailFastGames ==
    AddGameInputs \cup {Json(With(FullGame("Doom"), "developer_hq", hq)) : hq \in {HqThree, HqText}}

FailFastAdds == AddReviewInputs \cup {Json(Empty), NotJson}

FailFastEdits == EditReviewInputs \cup {Json(Empty), NotJson}

\* a handler's answer o, and the collection it may write before and after
FailFast(o, before, after) == o.resp.status \in ClientErrors => after = before

(* C20: fail fast: a request answered 400, 401, 403, 404 or 409 leaves
   db.games, db.users and db.blacklist as they were: this holds of every
   step taken, with requests overlapping, and of every request to register,
   logout, add_new_game, edit_game, delete_game, add_new_review, edit_review
   and delete_review that could be served in a state reached. *)
C20_FailFast ==
    /\ [][resp'.status \in ClientErrors
            => <<games, users, blacklist>>' = <<games, users, blacklist>>]_vars
    /\ [](/\ \A data \in RegisterInputs :
                LET o == register_result(data) IN FailFast(o, users, o.users)
          /\ \A token \in FailFastTokens :
                /\ LET o == logout_result(token) IN FailFast(o, blacklist, o.blacklist)
                /\ \A body \in FailFastGames :
                        LET o == add_new_game_result(token, body)
                        IN  FailFast(o, games, o.games)
                /\ \A id \in {BadId, FirstGame}, body \in AllEditGameInputs :
                        LET o == edit_game_result(token, id, body)
                        IN  FailFast(o, games, o.games)
                /\ \A id \in {BadId, FirstGame} :
                        LET o == delete_game_result(token, id)
                        IN  FailFast(o, games, o.games)
                /\ \A g_id \in {BadId, FirstGame}, body \in FailFastAdds :
                        LET o == add_new_review_result(token, g_id, body)
                        IN  FailFast(o, games, o.games)
                /\ \A g_id \in {BadId, FirstGame}, r_id \in ReviewIds,
                      body \in FailFastEdits :
                        LET o == edit_review_result(token, g_id, r_id, body)
                        IN  FailFast(o, games, o.games)
                /\ \A g_id \in {BadId, FirstGame}, r_id \in ReviewIds :
                        LET o == delete_review_result(token, g_id, r_id)
                        IN  FailFast(o, games, o.games))

\* a request on a game that has reviews has just been refused with 403
C20_Witness ==
    /\ resp.status = 403
    /\ served = now
    /\ TheReviews(games) # << >>

-----------------------------------------------------------------------------
(* What a successful edit_review changes *)
Mallory == JStr("mallory")

FrameEdits ==
    AllEditReviewInputs \cup
    {Json([comment |-> JStr("c2"), username |-> Mallory, user_id |-> JInt(1)]),
     Json([username |-> Mallory])}

MayEdit(token, review) == token.admin \/ review.user_id = token.user_id

\* review new is review old with the comment and the rating of data, if any
OnlySupplied(old, new, data) ==
    /\ DOMAIN new = DOMAIN old
    /\ \A field \in DOMAIN old \ {"comment", "rating"} : new[field] = old[field]
    /\ new.comment = IF "comment" \in DOMAIN data THEN data["comment"] ELSE old.comment
    /\ IF "rating" \in DOMAIN data
       THEN new.rating = int(data["rating"]).value /\ new.rating \in MinRating..MaxRating
       ELSE new.rating = old.rating

(* C21: an edit_review answered 200 changes only the comment and the rating
   supplied, on the one review whose id is r_id: that review's other fields,
   the number and order of the game's reviews, every other review, the
   game's other fields and every other game stay as they were, whether the
   editor is the owner or an admin; a JSON object with neither comment nor
   rating, sent for an existing review by its owner or an admin, is answered
   400 "No valid fields provided" and changes nothing. *)
C21_EditReviewChangesOnlySupplied ==
    \A token \in ReviewTokens, r_id \in ReviewIds, body \in FrameEdits :
        LET o == edit_review_result(token, FirstGame, r_id, body)
            i == FindGame(games, FirstGame)
            j == FindReview(TheReviews(games), r_id)
        IN  /\ o.resp.status = 200 =>
                /\ j # 0 /\ MayEdit(token, TheReviews(games)[j])
                /\ Len(o.games) = Len(games)
                /\ \A k \in 1..Len(games) : k # i => o.games[k] = games[k]
                /\ DOMAIN o.games[i] = DOMAIN games[i]
                /\ \A field \in DOMAIN games[i] \ {"reviews"} :
                        o.games[i][field] = games[i][field]
                /\ Len(o.games[i].reviews) = Len(games[i].reviews)
                /\ \A k \in 1..Len(games[i].reviews) :
                        IF k = j
                        THEN OnlySupplied(games[i].reviews[k], o.games[i].reviews[k],
                                          body.data)
                        ELSE o.games[i].reviews[k] = games[i].reviews[k]
            /\ (/\ j # 0 /\ MayEdit(token, TheReviews(games)[j])
                /\ body.is_json /\ DOMAIN body.data \cap {"comment", "rating"} = {})
                    => /\ o.resp = Response(400, "No valid fields provided")
                       /\ o.games = games

\* a review of a game with two reviews has just been edited, next to another game
C21_Witness ==
    /\ resp = Response(200, "Review updated successfully")
    /\ Len(TheReviews(games)) > 1
    /\ \E k \in 1..Len(TheReviews(games)) : TheReviews(games)[k].comment = JStr("c2")
    /\ \E k \in 1..Len(TheReviews(games)) : TheReviews(games)[k].comment = JStr("c1")

-----------------------------------------------------------------------------
(* Privileges *)
NoAdmin(us) == \A i \in 1..Len(us) : ~us[i].admin

\* the game documents without their nested reviews
TopLevel(gms) == [k \in 1..Len(gms) |-> Without(gms[k], "reviews")]

\* users.find_one({"_id": ...})
Stored(user_id) == users[CHOOSE i \in 1..Len(users) : users[i]._id = user_id]

(* C22: no privilege escalation: register, login and logout leave every
   stored user as it is and register adds only users with admin false; the
   admin claim of every token login issues, and of every token a client can
   hold, is the admin flag stored for its user; and while no stored user is
   an admin, no request changes which game documents there are or any of
   their fields other than the nested reviews. *)
C22_NoPrivilegeEscalation ==
    /\ [][/\ Len(users') >= Len(users)
          /\ \A i \in 1..Len(users') :
                IF i <= Len(users) THEN users'[i] = users[i] ELSE ~users'[i].admin
          /\ NoAdmin(users) => TopLevel(games') = TopLevel(games)]_vars
    /\ [](/\ \A data \in RegisterInputs :
                LET o == register_result(data) IN
                /\ SubSeq(o.users, 1, Len(users)) = users
                /\ \A i \in (Len(users) + 1)..Len(o.users) : ~o.users[i].admin
          /\ \A in \in LoginInputs :
                LET r == login_result(in[1], in[2]) IN
                r.status = 200 =>
                    /\ r.token \in SignedTokens
                    /\ r.token.admin = Stored(r.token.user_id).admin
          /\ \A token \in SignedTokens : token.admin = Stored(token.user_id).admin
          /\ NoAdmin(users) =>
                \A token \in PresentedTokens :
                    /\ \A body \in AddGameInputs :
                        TopLevel(add_new_game_result(token, body).games) = TopLevel(games)
                    /\ \A body \in EditGameInputs :
                        TopLevel(edit_game_result(token, FirstGame, body).games)
                            = TopLevel(games)
                    /\ TopLevel(delete_game_result(token, FirstGame).games) = TopLevel(games)
                    /\ TopLevel(add_new_review_result(token, FirstGame, ProbeReview).games)
                            = TopLevel(games)
                    /\ \A r_id \in ReviewIds :
                        /\ TopLevel(edit_review_result(token, FirstGame, r_id,
                                                       EditComment).games) = TopLevel(games)
                        /\ TopLevel(delete_review_result(token, FirstGame, r_id).games)
                            = TopLevel(games))

\* no stored user is an admin, carol has registered and a review has been
\* added, and a valid token has just been refused a change of the catalog
C22_Witness ==
    /\ NoAdmin(users)
    /\ Len(users) > Len(SeedUsers)
    /\ TheReviews(games) # << >>
    /\ resp = Response(403, "Admin privileges required")

-----------------------------------------------------------------------------
(* edit_game sent twice *)
Success(rs) == rs.status \in 200..299

(* C23: edit_game is idempotent on an existing game: a JSON payload that
   passes edit_game's validation, sent by an admin twice in a row, is
   answered with success both times, and the games after the second request
   are the games after the first. *)
C23_EditGameIdempotent ==
    \A id \in ObjectIds, body \in AllEditGameInputs :
        LET first == edit_game_body(games, id, body)
            second == edit_game_body(first.games, id, body)
        IN  (FindGame(games, id) # 0 /\ first.resp.status # 400) =>
                /\ Success(first.resp)
                /\ Success(second.resp)
                /\ second.games = first.games

====
